---- MODULE Spec2Model ----
(***************************************************************************)
(* Multi-chain wallet balance aggregator (lambda/balances/handler.py).     *)
(*                                                                         *)
(* The model follows the handler: lambda_handler -> fetch_all_balances ->  *)
(* get_network_configs (get_secret per short key) -> one fetch task per    *)
(* network on a ThreadPoolExecutor -> as_completed collection -> cache     *)
(* update -> response envelope.                                            *)
(*                                                                         *)
(* Time is counted in half seconds, so that time.time() keeps a fractional *)
(* part and int(_cache_timestamp) is a real truncation.                    *)
(***************************************************************************)
EXTENDS Integers, Sequences, FiniteSets, TLC

(***************************************************************************)
(* Python values                                                           *)
(***************************************************************************)
\* Python None where a URL or a secret value is expected.
None == "None"

\* JSON null / Python None where a balance string is expected.
Null == << >>

\* An empty dict ({}), as a function with an empty domain.
EmptyDict == << >>

\* Python truthiness of a str | None value: None and "" are falsy.
Truthy(v) == v # None /\ v # ""

DictGet(d, k) == IF k \in DOMAIN d THEN d[k] ELSE None

DictSet(d, k, v) == [x \in (DOMAIN d) \cup {k} |-> IF x = k THEN v ELSE d[x]]

(***************************************************************************)
(* Bounds of the model                                                     *)
(***************************************************************************)
\* Largest value the wall clock takes (seconds).
MaxClock == 61

\* The clock at process start (in clock units: 0.5 s).
StartClock == 1

\* The handler threads of the process.
Threads == {"t1", "t2"}

(***************************************************************************)
(* Program constants                                                       *)
(***************************************************************************)
CACHE_TTL_SECONDS == 60

MAX_WORKERS == 20

MAINNET_SECRET_NAME == "facilitator-rpc-mainnet"

\* Clock units per second: clock, now and _cache_timestamp count half seconds.
TicksPerSecond == 2

\* The TTL in clock units.
TtlTicks == CACHE_TTL_SECONDS * TicksPerSecond

\* The instants at which the wall clock is looked at: process start, and the
\* two sides of the TTL after it (59.5 s and 60.0 s later).
ClockInstants ==
    {c \in {StartClock, StartClock + TtlTicks - 1, StartClock + TtlTicks} : c <= MaxClock * TicksPerSecond}

\* The short keys looked up in the secret store, in loop order.
NetworkKeys ==
    << "base", "avalanche", "polygon", "optimism", "celo", "hyperevm",
       "ethereum", "arbitrum", "unichain", "solana", "near" >>

PUBLIC_RPCS ==
    [ base      |-> "https://mainnet.base.org",
      avalanche |-> "https://avalanche-c-chain-rpc.publicnode.com",
      polygon   |-> "https://polygon.drpc.org",
      optimism  |-> "https://mainnet.optimism.io",
      celo      |-> "https://rpc.celocolombia.org",
      hyperevm  |-> "https://rpc.hyperliquid.xyz/evm",
      ethereum  |-> "https://ethereum-rpc.publicnode.com",
      arbitrum  |-> "https://arb1.arbitrum.io/rpc",
      unichain  |-> "https://unichain-rpc.publicnode.com",
      solana    |-> "https://api.mainnet-beta.solana.com",
      near      |-> "https://free.rpc.fastnear.com" ]

(***************************************************************************)
(* Network registry: the table returned by get_network_configs, before the *)
(* credential tiers are resolved.  A tier is <<"private", short key>>,     *)
(* <<"env", variable>> or <<"public", url>>.                               *)
(***************************************************************************)
Private(key) == << "private", key >>
Env(var)     == << "env", var >>
Public(url)  == << "public", url >>

Rpc(type, tiers) == [type |-> type, rpcs |-> tiers, api |-> None]
Api(type, url)   == [type |-> type, rpcs |-> << >>, api |-> url]

ThreeTier(type, key, var) == Rpc(type, << Private(key), Env(var), Public(PUBLIC_RPCS[key]) >>)

NetworkTable ==
    [ n \in {"avalanche-mainnet", "base-mainnet", "celo-mainnet", "hyperevm-mainnet",
             "polygon-mainnet", "optimism-mainnet", "ethereum-mainnet",
             "arbitrum-mainnet", "unichain-mainnet", "monad-mainnet", "bsc-mainnet",
             "avalanche-testnet", "base-testnet", "celo-testnet", "polygon-testnet",
             "optimism-testnet", "ethereum-testnet", "arbitrum-testnet",
             "unichain-testnet", "hyperevm-testnet",
             "solana-mainnet", "solana-devnet", "fogo-mainnet", "fogo-testnet",
             "sui-mainnet", "sui-testnet", "near-mainnet", "near-testnet",
             "stellar-mainnet", "stellar-testnet",
             "algorand-mainnet", "algorand-testnet"} |->
      CASE n = "avalanche-mainnet" -> ThreeTier("evm", "avalanche", "RPC_URL_AVALANCHE")
        [] n = "base-mainnet"      -> ThreeTier("evm", "base", "RPC_URL_BASE")
        [] n = "celo-mainnet"      -> ThreeTier("evm", "celo", "RPC_URL_CELO")
        [] n = "hyperevm-mainnet"  -> ThreeTier("evm", "hyperevm", "RPC_URL_HYPEREVM")
        [] n = "polygon-mainnet"   -> ThreeTier("evm", "polygon", "RPC_URL_POLYGON")
        [] n = "optimism-mainnet"  -> ThreeTier("evm", "optimism", "RPC_URL_OPTIMISM")
        [] n = "ethereum-mainnet"  -> ThreeTier("evm", "ethereum", "RPC_URL_ETHEREUM")
        [] n = "arbitrum-mainnet"  -> ThreeTier("evm", "arbitrum", "RPC_URL_ARBITRUM")
        [] n = "unichain-mainnet"  -> ThreeTier("evm", "unichain", "RPC_URL_UNICHAIN")
        [] n = "monad-mainnet"     ->
             Rpc("evm", << Env("RPC_URL_MONAD"), Public("https://rpc.monad.xyz") >>)
        [] n = "bsc-mainnet"       ->
             Rpc("evm", << Env("RPC_URL_BSC"), Public("https://bsc-dataseed.binance.org/") >>)
        [] n = "avalanche-testnet" ->
             Rpc("evm", << Public("https://avalanche-fuji-c-chain-rpc.publicnode.com") >>)
        [] n = "base-testnet"      -> Rpc("evm", << Public("https://sepolia.base.org") >>)
        [] n = "celo-testnet"      -> Rpc("evm", << Public("https://rpc.ankr.com/celo_sepolia") >>)
        [] n = "polygon-testnet"   ->
             Rpc("evm", << Public("https://rpc-amoy.polygon.technology") >>)
        [] n = "optimism-testnet"  -> Rpc("evm", << Public("https://sepolia.optimism.io") >>)
        [] n = "ethereum-testnet"  ->
             Rpc("evm", << Public("https://ethereum-sepolia-rpc.publicnode.com") >>)
        [] n = "arbitrum-testnet"  ->
             Rpc("evm", << Public("https://arbitrum-sepolia-rpc.publicnode.com") >>)
        [] n = "unichain-testnet"  -> Rpc("evm", << Public("https://unichain-sepolia.drpc.org") >>)
        [] n = "hyperevm-testnet"  ->
             Rpc("evm", << Public("https://rpc.hyperliquid-testnet.xyz/evm") >>)
        [] n = "solana-mainnet"    -> ThreeTier("solana", "solana", "RPC_URL_SOLANA")
        [] n = "solana-devnet"     -> Rpc("solana", << Public("https://api.devnet.solana.com") >>)
        [] n = "fogo-mainnet"      -> Rpc("solana", << Public("https://rpc.fogo.nightly.app/") >>)
        [] n = "fogo-testnet"      -> Rpc("solana", << Public("https://testnet.fogo.io/") >>)
        [] n = "sui-mainnet"       ->
             Rpc("sui", << Env("RPC_URL_SUI"), Public("https://fullnode.mainnet.sui.io:443") >>)
        [] n = "sui-testnet"       ->
             Rpc("sui", << Public("https://fullnode.testnet.sui.io:443") >>)
        [] n = "near-mainnet"      ->
             Rpc("near", << Private("near"), Public("https://free.rpc.fastnear.com"),
                            Public("https://near.lava.build"), Public("https://near.drpc.org") >>)
        [] n = "near-testnet"      ->
             Rpc("near", << Public("https://test.rpc.fastnear.com"),
                            Public("https://rpc.testnet.fastnear.com"),
                            Public("https://near-testnet.drpc.org") >>)
        [] n = "stellar-mainnet"   -> Api("stellar", "https://horizon.stellar.org/accounts/")
        [] n = "stellar-testnet"   -> Api("stellar", "https://horizon-testnet.stellar.org/accounts/")
        [] n = "algorand-mainnet"  -> Api("algorand", "https://mainnet-api.algonode.cloud/v2/accounts/")
        [] n = "algorand-testnet"  -> Api("algorand", "https://testnet-api.algonode.cloud/v2/accounts/") ]

AllNetworks == DOMAIN NetworkTable

\* The network ids in the order of the dict: the order of networks.items(),
\* hence of the executor.submit calls.
NetworkOrder ==
    << "avalanche-mainnet", "base-mainnet", "celo-mainnet", "hyperevm-mainnet",
       "polygon-mainnet", "optimism-mainnet", "ethereum-mainnet", "arbitrum-mainnet",
       "unichain-mainnet", "monad-mainnet", "bsc-mainnet",
       "avalanche-testnet", "base-testnet", "celo-testnet", "polygon-testnet",
       "optimism-testnet", "ethereum-testnet", "arbitrum-testnet", "unichain-testnet",
       "hyperevm-testnet",
       "solana-mainnet", "solana-devnet", "fogo-mainnet", "fogo-testnet",
       "sui-mainnet", "sui-testnet", "near-mainnet", "near-testnet",
       "stellar-mainnet", "stellar-testnet", "algorand-mainnet", "algorand-testnet" >>

PositionOf ==
    [n \in AllNetworks |-> CHOOSE i \in 1..Len(NetworkOrder) : NetworkOrder[i] = n]

\* The registries the model is run on: sub-tables of NetworkTable that between
\* them hold every protocol kind and every shape of tier list.
Registries ==
    { {"base-mainnet", "stellar-mainnet"},
      {"solana-mainnet", "algorand-mainnet"},
      {"near-mainnet", "sui-mainnet"} }

TiersOf(n) ==
    {NetworkTable[n].rpcs[i] : i \in 1..Len(NetworkTable[n].rpcs)}

\* The short keys whose private RPC the networks of registry reg can use.
KeysOf(reg) == {tier[2] : tier \in {x \in UNION {TiersOf(n) : n \in reg} : x[1] = "private"}}

\* The environment variables the networks of registry reg read.
EnvVarsOf(reg) == {tier[2] : tier \in {x \in UNION {TiersOf(n) : n \in reg} : x[1] = "env"}}

\* The loop of get_network_configs over the short keys, restricted to reg.
KeyLoop(reg) == SelectSeq(NetworkKeys, LAMBDA k : k \in KeysOf(reg))

(***************************************************************************)
(* Wire responses.  One HTTP call answers with a record                    *)
(*   http   : "error" (urlopen raised: unreachable, timeout, non-2xx),     *)
(*            "nonjson" (json.loads raised), or "json";                    *)
(*   error  : the JSON body carries an `error` member;                     *)
(*   result : "absent"    - the member the client looks for is missing,    *)
(*            "nomatch"   - it is there but holds no entry to select       *)
(*                          (no `value`/`amount` key, no SUI coin, no      *)
(*                          native asset),                                 *)
(*            "malformed" - it is there but of a type the parse rejects,   *)
(*            "ok"        - it is there and well formed;                   *)
(*   amount : the raw amount m * 10^e of a well-formed result.             *)
(***************************************************************************)
Amt(m, e) == [m |-> m, e |-> e]

Wire(h, err, res, a) == [http |-> h, error |-> err, result |-> res, amount |-> a]

NoResponse == Wire("none", FALSE, "absent", Amt(0, 0))

JsonRpcTypes == {"evm", "solana", "sui", "near"}

\* The raw amounts the endpoints of a protocol may report.
Amounts(type) ==
    CASE type = "evm"      -> {Amt(0, 0), Amt(1, 18)}
      [] type = "solana"   -> {Amt(0, 0), Amt(25, 8)}
      [] type = "sui"      -> {Amt(0, 0), Amt(123456789, 1)}
      [] type = "near"     -> {Amt(0, 0), Amt(1, 24)}
      [] type = "stellar"  -> {Amt(0, 0), Amt(15, -1)}
      [] type = "algorand" -> {Amt(0, 0), Amt(5, 6)}

Shapes(type) ==
    CASE type = "evm"      -> {"absent", "malformed"}
      [] type = "algorand" -> {"absent", "malformed"}
      [] OTHER             -> {"absent", "nomatch", "malformed"}

Responses(type) ==
    LET flags == IF type \in JsonRpcTypes THEN BOOLEAN ELSE {FALSE}
    IN  {Wire("error", FALSE, "absent", Amt(0, 0)), Wire("nonjson", FALSE, "absent", Amt(0, 0))}
        \cup {Wire("json", f, s, Amt(0, 0)) : f \in flags, s \in Shapes(type)}
        \cup {Wire("json", f, "ok", a) : f \in flags, a \in Amounts(type)}

\* What an endpoint of a protocol can answer, the endpoints being in state w:
\* anything when unreliable, the funded wallet's balance when healthy or in
\* lockstep (healthy, and answering in the order asked) or prompt (healthy,
\* and answering at once); with no_sui_coin the Sui endpoints answer anything
\* but a result list holding the SUI entry.
Offered(w, type) ==
    IF w \in {"healthy", "lockstep", "prompt"}
    THEN {Wire("json", FALSE, "ok", a) : a \in Amounts(type) \ {Amt(0, 0)}}
    ELSE IF w = "no_sui_coin" /\ type = "sui"
    THEN {r \in Responses(type) : r.result # "ok"}
    ELSE Responses(type)

(***************************************************************************)
(* Balance strings: f"{x:.4f}" is the pair <<whole part, four fractional   *)
(* digits>>.                                                               *)
(***************************************************************************)
RECURSIVE Pow10(_)
Pow10(k) == IF k <= 0 THEN 1 ELSE 10 * Pow10(k - 1)

\* n / q rounded to the nearest integer, an exact tie going to the even one.
RoundDiv(n, q) ==
    LET lo == n \div q
        r2 == 2 * (n % q)
    IN  IF r2 > q \/ (r2 = q /\ lo % 2 = 1) THEN lo + 1 ELSE lo

\* The amount a, divided by 10^d, in ten-thousandths.  A mantissa is below
\* 10^9, so a divisor of 10^10 or more leaves nothing.
Scaled(a, d) ==
    IF a.e + 4 >= d THEN a.m * Pow10(a.e + 4 - d)
    ELSE IF d - 4 - a.e >= 10 THEN 0
    ELSE RoundDiv(a.m, Pow10(d - 4 - a.e))

Format4(a, d) == << Scaled(a, d) \div 10000, Scaled(a, d) % 10000 >>

\* Mutation of Decimals: every chain is scaled like an EVM chain.
DecimalsAsEvm(type) == 18

Decimals(type) ==
    CASE type = "evm"      -> 18
      [] type = "solana"   -> 9
      [] type = "sui"      -> 9
      [] type = "near"     -> 24
      [] type = "stellar"  -> 0
      [] type = "algorand" -> 6

(***************************************************************************)
(* Protocol clients: what one loop body does with one response.            *)
(*   "return" - the function returns (network, balance);                   *)
(*   "raise"  - an exception is caught by the loop's except clause;        *)
(*   "skip"   - the if is false, the body ends without returning.          *)
(***************************************************************************)
Return(b) == [outcome |-> "return", balance |-> b]
Raise     == [outcome |-> "raise", balance |-> Null]
Skip      == [outcome |-> "skip", balance |-> Null]

ParseEvm(r) ==
    IF r.http # "json" THEN Raise
    ELSE IF r.result = "absent" THEN Skip
    ELSE IF r.result = "ok" THEN Return(Format4(r.amount, Decimals("evm")))
    ELSE Raise

\* Mutation of ParseSolana: a balance of zero lamports is taken for no answer
\* (`if balance_lamports:`), and the walk goes on.
ParseSolanaZeroFalsy(r) ==
    IF r.http # "json" THEN Raise
    ELSE IF r.result \in {"absent", "nomatch"} THEN Skip
    ELSE IF r.result = "ok" /\ r.amount = Amt(0, 0) THEN Skip
    ELSE IF r.result = "ok" THEN Return(Format4(r.amount, Decimals("solana")))
    ELSE Raise

ParseSolana(r) ==
    IF r.http # "json" THEN Raise
    ELSE IF r.result \in {"absent", "nomatch"} THEN Skip
    ELSE IF r.result = "ok" THEN Return(Format4(r.amount, Decimals("solana")))
    ELSE Raise

\* Mutation of ParseSui: a result list without the SUI entry counts as an
\* empty wallet.
ParseSuiZero(r) ==
    IF r.http # "json" THEN Raise
    ELSE IF r.result = "absent" THEN Skip
    ELSE IF r.result = "nomatch" THEN Return(<< 0, 0 >>)
    ELSE IF r.result = "ok" THEN Return(Format4(r.amount, Decimals("sui")))
    ELSE Raise

ParseSui(r) ==
    IF r.http # "json" THEN Raise
    ELSE IF r.result \in {"absent", "nomatch"} THEN Skip
    ELSE IF r.result = "ok" THEN Return(Format4(r.amount, Decimals("sui")))
    ELSE Raise

ParseNear(r) ==
    IF r.http # "json" THEN Raise
    ELSE IF r.result \in {"absent", "nomatch"} THEN Skip
    ELSE IF r.result = "ok" THEN Return(Format4(r.amount, Decimals("near")))
    ELSE Raise

ParseStellar(r) ==
    IF r.http # "json" THEN Raise
    ELSE IF r.result \in {"absent", "nomatch"} THEN Skip
    ELSE IF r.result = "ok" THEN Return(Format4(r.amount, Decimals("stellar")))
    ELSE Raise

ParseAlgorand(r) ==
    IF r.http # "json" THEN Raise
    ELSE IF r.result = "absent" THEN Skip
    ELSE IF r.result = "ok" THEN Return(Format4(r.amount, Decimals("algorand")))
    ELSE Raise

\* The dispatch of fetch_all_balances on the network type.
Parse(type, r) ==
    CASE type = "evm"      -> ParseEvm(r)
      [] type = "solana"   -> ParseSolana(r)
      [] type = "sui"      -> ParseSui(r)
      [] type = "near"     -> ParseNear(r)
      [] type = "stellar"  -> ParseStellar(r)
      [] type = "algorand" -> ParseAlgorand(r)

\* Mutation of FilterRpcs: the absent tiers stay in the list.
KeepAllRpcs(rpcs) == rpcs

\* rpcs = [r for r in config.get("rpcs", []) if r]
FilterRpcs(rpcs) == SelectSeq(rpcs, Truthy)

\* Mutation of Endpoints: an account API that fails is asked a second time.
EndpointsApiTwice(config) ==
    IF config.type \in {"stellar", "algorand"} THEN << config.api, config.api >>
    ELSE FilterRpcs(config.rpcs)

\* The endpoints a fetch task walks: the filtered rpcs of an RPC network, the
\* single api URL of an account-API network.
Endpoints(config) ==
    IF config.type \in {"stellar", "algorand"} THEN << config.api >>
    ELSE FilterRpcs(config.rpcs)

(***************************************************************************)
(* Outbound collaborators                                                  *)
(***************************************************************************)
\* Values a short key of the secret may hold.
SecretUrls == {"https://private-1.example", "https://private-2.example"}

\* What one get_secret_value call plus the parse of its body comes to:
\*   "value"           - the body is a JSON object; value is secret_data.get(key)
\*                       (None when the key is missing),
\*   "ClientError"     - the service answered with an error (access denied,
\*                       secret not found),
\*   "JSONDecodeError" - the body is not JSON (or there is no SecretString),
\*   "AttributeError"  - the body is JSON but not an object: no .get,
\*   "BotoCoreError"   - no answer at all (endpoint unreachable, no credentials).
StoreAnswer(kind, value) == [kind |-> kind, value |-> value]

StoreAnswers ==
    {StoreAnswer("value", v) : v \in {None, ""} \cup SecretUrls}
    \cup {StoreAnswer(k, None) :
            k \in {"ClientError", "JSONDecodeError", "AttributeError", "BotoCoreError"}}

\* The secret store of a process whose answers change from call to call.
Volatile == StoreAnswer("volatile", None)

\* The secret store of a process during which the secret is rotated: every
\* call is answered, with the value the short key holds at the time.
Rotated == StoreAnswer("rotated", None)

\* What a call can come to, the store being in state store: the one answer of
\* a settled store, any answer of a volatile one, any present value of a
\* rotated one.
AnswersOf(store) ==
    IF store = Volatile THEN StoreAnswers
    ELSE IF store = Rotated THEN {StoreAnswer("value", v) : v \in SecretUrls}
    ELSE {store}

\* The exceptions get_secret catches (returning None).
CaughtBySecret(kind) == kind \in {"ClientError", "JSONDecodeError"}

\* Values an environment variable may hold (None: unset).
EnvValues == {None, "", "https://env-override.example"}

(***************************************************************************)
(* State                                                                   *)
(***************************************************************************)
VARIABLES
    clock,            \* time.time(), in half seconds
    registry,         \* the network ids of the table in force
    environ,          \* os.environ, on the variables the registry reads
    callers,          \* the threads on which the handler is invoked
    secret_store,     \* the secret store: Volatile, or the answer it gives to every call
    wire,             \* the endpoints: "unreliable", "healthy", "lockstep",
                      \* "no_sui_coin", or "prompt"
    store_called,     \* the cache keys for which the secret store has been called
    cache_run,        \* the clock read of the run whose balances _cache holds
    result_run,       \* per thread: the clock read of the run that produced result
    secrets_cache,    \* _secrets_cache: cache_key -> value
    cache,            \* _cache
    cache_timestamp,  \* _cache_timestamp
    pc,               \* per thread: the statement about to run
    now,              \* per thread: now of fetch_all_balances
    key_idx,          \* per thread: position in the loop over the short keys
    private_rpcs,     \* per thread: private_rpcs of get_network_configs
    networks,         \* per thread: networks of fetch_all_balances
    futures,          \* per thread: network -> fetch task
    balances,         \* per thread: balances of fetch_all_balances
    result,           \* per thread: what fetch_all_balances returned
    exc,              \* per thread: the exception in flight ("none": none)
    response          \* per thread: the last envelope lambda_handler returned

globals == << secrets_cache, cache, cache_timestamp >>
world   == << clock, registry, environ, callers, secret_store, wire >>
history == << store_called, cache_run, result_run >>
locals  == << now, key_idx, private_rpcs, networks, futures, balances, result, exc >>
vars    == << world, history, globals, pc, locals, response >>

(***************************************************************************)
(* Envelopes                                                               *)
(***************************************************************************)
SuccessHeaders ==
    { "Content-Type", "Access-Control-Allow-Origin", "Access-Control-Allow-Methods",
      "Access-Control-Allow-Headers", "Cache-Control" }

ErrorHeaders == { "Content-Type", "Access-Control-Allow-Origin" }

NoEnvelope ==
    [statusCode |-> 0, headers |-> {}, balances |-> EmptyDict, cached_at |-> 0,
     ttl_seconds |-> 0, error |-> "none", stamp |-> 0, at |-> 0, run |-> 0]

\* int(_cache_timestamp)
IntSeconds(ts) == ts \div TicksPerSecond

\* The 200 envelope.  Three fields are not on the wire: stamp, the value of
\* _cache_timestamp that cached_at was cut from; at, the clock read of the
\* invocation; run, the clock read of the run that produced the balances.
Success(b, ts, at, run) ==
    [statusCode |-> 200, headers |-> SuccessHeaders, balances |-> b,
     cached_at |-> IntSeconds(ts), ttl_seconds |-> CACHE_TTL_SECONDS,
     error |-> "none", stamp |-> ts, at |-> at, run |-> run]

Failure(e) ==
    [statusCode |-> 500, headers |-> ErrorHeaders, balances |-> EmptyDict,
     cached_at |-> 0, ttl_seconds |-> 0, error |-> e, stamp |-> 0, at |-> 0, run |-> 0]

(***************************************************************************)
(* Fetch tasks                                                             *)
(***************************************************************************)
\* A task: state "queued", "running", "done" or "collected"; endpoints, the
\* list it walks; i, the endpoint it tries next; tried, the attempts made so
\* far as <<endpoint index, accepted>>; accepted, the response it returned on;
\* result, the balance it returns.  all_failed records, once the task's future
\* has been consumed, that every endpoint of its list was tried and failed.
Task(st, eps, i, tried, acc, res) ==
    [state |-> st, endpoints |-> eps, i |-> i, tried |-> tried, accepted |-> acc,
     result |-> res, all_failed |-> FALSE]

Queued == Task("queued", << >>, 0, << >>, NoResponse, Null)

\* Every endpoint of the task's list has been tried and none was accepted.
AllFailed(task) ==
    /\ task.state = "done"
    /\ {task.tried[j][1] : j \in 1..Len(task.tried)} = 1..Len(task.endpoints)
    /\ \A j \in 1..Len(task.tried) : ~task.tried[j][2]

\* The task once as_completed has handed its future over: the walk's record
\* is dropped, the result and whether the walk was exhausted are kept.
Collected(task) ==
    [Task("collected", << >>, 0, << >>, NoResponse, task.result)
        EXCEPT !.all_failed = AllFailed(task)]

TypeOf(n) == NetworkTable[n].type

CacheKey(secret_name, key) == << secret_name, key >>

\* One tier of a network's rpcs list, as get_network_configs evaluates it.
ResolveTier(tier, private, env) ==
    CASE tier[1] = "private" -> DictGet(private, tier[2])
      [] tier[1] = "env"     -> env[tier[2]]
      [] tier[1] = "public"  -> tier[2]

\* Mutation of Resolve: the tiers are listed lowest priority first.
ResolvePublicFirst(n, private, env) ==
    LET tiers == NetworkTable[n].rpcs
    IN  [type |-> NetworkTable[n].type,
         api  |-> NetworkTable[n].api,
         rpcs |-> [i \in 1..Len(tiers) |->
                     ResolveTier(tiers[Len(tiers) + 1 - i], private, env)]]

\* The config of network n in the dict get_network_configs returns.
Resolve(n, private, env) ==
    [type |-> NetworkTable[n].type,
     api  |-> NetworkTable[n].api,
     rpcs |-> [i \in 1..Len(NetworkTable[n].rpcs) |->
                 ResolveTier(NetworkTable[n].rpcs[i], private, env)]]

\* Mutation of IsFresh: the comparison is turned round.
IsFreshInverted(n, ts) == (n - ts) > TtlTicks

\* Mutation of IsFresh: an entry aged exactly the TTL still counts as fresh.
IsFreshInclusive(n, ts) == (n - ts) <= TtlTicks

\* now - _cache_timestamp < CACHE_TTL_SECONDS
IsFresh(n, ts) == (n - ts) < TtlTicks

\* Mutation of CacheHit: a caller that finds a refresh in flight is served the
\* slot as it is.
CacheHitOrRefreshing(c, ts, n) ==
    \/ c # EmptyDict /\ IsFresh(n, ts)
    \/ \E t \in Threads :
         pc[t] \in {"get_secret", "store_call", "submit", "collect", "update_timestamp"}

\* if _cache and (now - _cache_timestamp) < CACHE_TTL_SECONDS
CacheHit(c, ts, n) == c # EmptyDict /\ IsFresh(n, ts)

Running(t) == {n \in DOMAIN futures[t] : futures[t][n].state = "running"}

\* Mutation of FreeWorker: the pool has no worker to give.
NoFreeWorker(running) == running < 0

\* Mutation of FreeWorker: every task gets a thread of its own.
ThreadPerTask(running) == TRUE

\* ThreadPoolExecutor(max_workers=20): a worker is free to take a task.
FreeWorker(running) == running < MAX_WORKERS

\* With the endpoints in lockstep, the run proceeds in submission order: the
\* workers take the tasks from the queue in that order, the endpoints answer in
\* the order asked, and the main thread collects each future as it completes.
\* It is network n's turn when every task submitted before it is in one of
\* states.
InTurn(t, n, states) ==
    wire = "lockstep" =>
      \A m \in DOMAIN futures[t] :
        PositionOf[m] < PositionOf[n] => futures[t][m].state \in states

\* With prompt endpoints every answer arrives at the clock instant at which
\* the run read the clock: the balances of a run are as old as its `now`.
Prompt(t) == wire = "prompt" => clock = now[t]

(***************************************************************************)
(* The walk of one fetch task                                              *)
(***************************************************************************)
\* Mutation of Exhausted: an exhausted walk reports a zero balance.
ExhaustedAsZero(network) == << 0, 0 >>

\* return network, None  (after the loop)
Exhausted(network) == Null

\* Mutation of NextEndpoint: a failed endpoint is asked again.
RetryEndpoint(i) == i

\* Mutation of NextEndpoint: the walk steps over an endpoint.
SkipEndpoint(i) == i + 2

\* The endpoint tried after endpoint i has failed: the for loop's next item.
NextEndpoint(i) == i + 1

\* The task after its loop body has run on response r of endpoint task.i,
\* p being what the protocol client made of r.
AfterAttempt(n, task, r, p) ==
    LET tried == Append(task.tried, << task.i, p.outcome = "return" >>)
    IN  IF p.outcome = "return"
        THEN Task("done", task.endpoints, task.i, tried, r, p.balance)
        ELSE IF NextEndpoint(task.i) <= Len(task.endpoints)
             THEN Task("running", task.endpoints, NextEndpoint(task.i), tried, NoResponse, Null)
             ELSE Task("done", task.endpoints, task.i, tried, NoResponse, Exhausted(n))

\* Mutation of CollectResult: a network without a balance voids the entries
\* gathered so far.
CollectPoisoned(b, n, r) ==
    IF r = Null THEN [x \in (DOMAIN b) \cup {n} |-> Null] ELSE DictSet(b, n, r)

\* Mutation of CollectResult: the result collected last is written over the
\* entries gathered before it.
CollectOverwrite(b, n, r) == [x \in (DOMAIN b) \cup {n} |-> r]

\* Mutation of CollectResult: a network without a balance gets no entry.
CollectSkipNone(b, n, r) == IF r = Null THEN b ELSE DictSet(b, n, r)

\* balances[network] = balance
CollectResult(b, n, r) == DictSet(b, n, r)

(***************************************************************************)
(* get_secret                                                              *)
(***************************************************************************)
\* What get_secret returns on a store answer, or the exception it lets through.
SecretReturn(answer) ==
    IF answer.kind = "value" THEN [raised |-> "none", value |-> answer.value]
    ELSE IF CaughtBySecret(answer.kind) THEN [raised |-> "none", value |-> None]
    ELSE [raised |-> answer.kind, value |-> None]

\* Mutation of SecretsCacheAfter: the secret's name is cached for the value.
SecretsCacheName(sc, cache_key, value) ==
    IF Truthy(value) THEN DictSet(sc, cache_key, cache_key[1]) ELSE sc

\* if value: _secrets_cache[cache_key] = value
SecretsCacheAfter(sc, cache_key, value) ==
    IF Truthy(value) THEN DictSet(sc, cache_key, value) ELSE sc

\* if private_rpc: private_rpcs[network_key] = private_rpc
PrivateRpcsAfter(private, key, value) ==
    IF Truthy(value) THEN DictSet(private, key, value) ELSE private

(***************************************************************************)
(* lambda_handler's except clause: which exceptions it turns into the 500  *)
(* envelope (except Exception).                                            *)
(***************************************************************************)
\* Mutation of Handled: the clause names the one exception get_secret knows.
HandledClientErrorOnly(e) == e = "ClientError"

Handled(e) == TRUE

(***************************************************************************)
(* Initial state                                                           *)
(***************************************************************************)
InitProcess ==
    /\ clock = StartClock
    /\ store_called = {}
    /\ cache_run = 0
    /\ result_run = [t \in Threads |-> 0]
    /\ secrets_cache = EmptyDict
    /\ cache = EmptyDict
    /\ cache_timestamp = 0
    /\ pc = [t \in Threads |-> "idle"]
    /\ now = [t \in Threads |-> 0]
    /\ key_idx = [t \in Threads |-> 0]
    /\ private_rpcs = [t \in Threads |-> EmptyDict]
    /\ networks = [t \in Threads |-> EmptyDict]
    /\ futures = [t \in Threads |-> EmptyDict]
    /\ balances = [t \in Threads |-> EmptyDict]
    /\ result = [t \in Threads |-> EmptyDict]
    /\ exc = [t \in Threads |-> "none"]
    /\ response = [t \in Threads |-> NoEnvelope]

\* The table in force is one of Registries, the variables it reads are set,
\* empty or unset.
InitRegistry ==
    /\ registry \in Registries
    /\ environ \in [EnvVarsOf(registry) -> EnvValues]

\* One handler thread: invocations follow one another.  The secret store may
\* answer each call with anything it can answer.
Init ==
    /\ InitProcess
    /\ InitRegistry
    /\ callers = {"t1"}
    /\ secret_store = Volatile
    /\ wire = "unreliable"

(***************************************************************************)
(* Actions                                                                 *)
(***************************************************************************)
\* The wall clock advances.
Tick ==
    /\ \E c \in ClockInstants : c > clock /\ clock' = c
    /\ UNCHANGED << registry, environ, callers, secret_store, wire, history, globals, pc,
                    locals, response >>

\* API Gateway invokes lambda_handler on thread t.
Invoke(t) ==
    /\ pc[t] = "idle"
    /\ pc' = [pc EXCEPT ![t] = "read_clock"]
    /\ UNCHANGED << world, history, globals, locals, response >>

\* now = time.time()
ReadClock(t) ==
    /\ pc[t] = "read_clock"
    /\ now' = [now EXCEPT ![t] = clock]
    /\ pc' = [pc EXCEPT ![t] = "check_cache"]
    /\ UNCHANGED << world, history, globals, key_idx, private_rpcs, networks, futures, balances,
                    result, exc, response >>

\* if _cache and (now - _cache_timestamp) < CACHE_TTL_SECONDS:
CheckCache(t) ==
    /\ pc[t] = "check_cache"
    /\ IF CacheHit(cache, cache_timestamp, now[t])
       THEN /\ pc' = [pc EXCEPT ![t] = "return_cached"]
            /\ UNCHANGED key_idx
       ELSE /\ pc' = [pc EXCEPT ![t] = "get_secret"]
            /\ key_idx' = [key_idx EXCEPT ![t] = 1]
    /\ UNCHANGED << world, history, globals, now, private_rpcs, networks, futures, balances,
                    result, exc, response >>

\* Mutation of ReturnCached: a hit renews the snapshot's timestamp.
ReturnCachedRenewing(t) ==
    /\ pc[t] = "return_cached"
    /\ result' = [result EXCEPT ![t] = cache]
    /\ result_run' = [result_run EXCEPT ![t] = cache_run]
    /\ cache_timestamp' = now[t]
    /\ pc' = [pc EXCEPT ![t] = "respond"]
    /\ UNCHANGED << world, store_called, cache_run, secrets_cache, cache, now, key_idx,
                    private_rpcs, networks, futures, balances, exc, response >>

\* return _cache
ReturnCached(t) ==
    /\ pc[t] = "return_cached"
    /\ result' = [result EXCEPT ![t] = cache]
    /\ result_run' = [result_run EXCEPT ![t] = cache_run]
    /\ pc' = [pc EXCEPT ![t] = "respond"]
    /\ UNCHANGED << world, store_called, cache_run, globals, now, key_idx, private_rpcs, networks, futures,
                    balances, exc, response >>

\* get_private_rpc(network_key) for the next short key, served by _secrets_cache.
GetSecretCached(t) ==
    /\ pc[t] = "get_secret"
    /\ key_idx[t] <= Len(KeyLoop(registry))
    /\ LET key == KeyLoop(registry)[key_idx[t]]
           cache_key == CacheKey(MAINNET_SECRET_NAME, key)
       IN  /\ cache_key \in DOMAIN secrets_cache
           /\ private_rpcs' = [private_rpcs EXCEPT
                                 ![t] = PrivateRpcsAfter(@, key, secrets_cache[cache_key])]
    /\ key_idx' = [key_idx EXCEPT ![t] = @ + 1]
    /\ UNCHANGED << world, history, globals, pc, now, networks, futures, balances, result, exc,
                    response >>

\* get_private_rpc(network_key) for the next short key: not in _secrets_cache.
GetSecretMiss(t) ==
    /\ pc[t] = "get_secret"
    /\ key_idx[t] <= Len(KeyLoop(registry))
    /\ CacheKey(MAINNET_SECRET_NAME, KeyLoop(registry)[key_idx[t]]) \notin DOMAIN secrets_cache
    /\ pc' = [pc EXCEPT ![t] = "store_call"]
    /\ UNCHANGED << world, history, globals, locals, response >>

\* client.get_secret_value(...) and the rest of get_secret's try block.
StoreCall(t) ==
    /\ pc[t] = "store_call"
    /\ store_called' = store_called \cup
                          {CacheKey(MAINNET_SECRET_NAME, KeyLoop(registry)[key_idx[t]])}
    /\ \E answer \in AnswersOf(secret_store) :
         LET key == KeyLoop(registry)[key_idx[t]]
             ret == SecretReturn(answer)
         IN  IF ret.raised = "none"
             THEN /\ secrets_cache' = SecretsCacheAfter(secrets_cache,
                                         CacheKey(MAINNET_SECRET_NAME, key), ret.value)
                  /\ private_rpcs' = [private_rpcs EXCEPT
                                        ![t] = PrivateRpcsAfter(@, key, ret.value)]
                  /\ key_idx' = [key_idx EXCEPT ![t] = @ + 1]
                  /\ pc' = [pc EXCEPT ![t] = "get_secret"]
                  /\ UNCHANGED exc
             ELSE /\ exc' = [exc EXCEPT ![t] = ret.raised]
                  /\ pc' = [pc EXCEPT ![t] = "except"]
                  /\ UNCHANGED << secrets_cache, private_rpcs, key_idx >>
    /\ UNCHANGED << world, cache_run, result_run, cache, cache_timestamp, now, networks,
                    futures, balances, result, response >>

\* The dict literal get_network_configs returns.
BuildConfigs(t) ==
    /\ pc[t] = "get_secret"
    /\ key_idx[t] > Len(KeyLoop(registry))
    /\ networks' = [networks EXCEPT
                      ![t] = [n \in registry |-> Resolve(n, private_rpcs[t], environ)]]
    /\ pc' = [pc EXCEPT ![t] = "submit"]
    /\ UNCHANGED << world, history, globals, now, key_idx, private_rpcs, futures, balances, result,
                    exc, response >>

\* The loop of executor.submit calls.
Submit(t) ==
    /\ pc[t] = "submit"
    /\ futures' = [futures EXCEPT ![t] = [n \in DOMAIN networks[t] |-> Queued]]
    /\ pc' = [pc EXCEPT ![t] = "collect"]
    /\ UNCHANGED << world, history, globals, now, key_idx, private_rpcs, networks, balances, result,
                    exc, response >>

\* Mutation of PoolFail: the run stamps the cache before it submits its tasks.
PoolFailStamped(t) ==
    /\ pc[t] = "submit"
    /\ exc' = [exc EXCEPT ![t] = "RuntimeError"]
    /\ pc' = [pc EXCEPT ![t] = "except"]
    /\ cache_timestamp' = now[t]
    /\ UNCHANGED << world, history, secrets_cache, cache, now, key_idx, private_rpcs, networks,
                    futures, balances, result, response >>

\* The executor cannot start a worker thread: submit raises RuntimeError.
PoolFail(t) ==
    /\ pc[t] = "submit"
    /\ exc' = [exc EXCEPT ![t] = "RuntimeError"]
    /\ pc' = [pc EXCEPT ![t] = "except"]
    /\ UNCHANGED << world, history, globals, now, key_idx, private_rpcs, networks, futures, balances,
                    result, response >>

\* A free worker picks up the task of network n and filters its rpcs.
StartTask(t, n) ==
    /\ pc[t] = "collect"
    /\ n \in DOMAIN futures[t]
    /\ futures[t][n].state = "queued"
    /\ FreeWorker(Cardinality(Running(t)))
    /\ InTurn(t, n, {"running", "done", "collected"})
    /\ LET eps == Endpoints(networks[t][n])
       IN  futures' = [futures EXCEPT ![t][n] =
                         IF Len(eps) = 0
                         THEN Task("done", eps, 0, << >>, NoResponse, Exhausted(n))
                         ELSE Task("running", eps, 1, << >>, NoResponse, Null)]
    /\ UNCHANGED << world, history, globals, pc, now, key_idx, private_rpcs, networks, balances,
                    result, exc, response >>

\* One pass of the task's loop body: fetch_json on the next endpoint, then the
\* protocol's parse.
Attempt(t, n) ==
    /\ pc[t] = "collect"
    /\ n \in DOMAIN futures[t]
    /\ futures[t][n].state = "running"
    /\ InTurn(t, n, {"done", "collected"})
    /\ Prompt(t)
    /\ \E r \in Offered(wire, networks[t][n].type) :
         futures' = [futures EXCEPT ![t][n] =
                       AfterAttempt(n, @, r, Parse(networks[t][n].type, r))]
    /\ UNCHANGED << world, history, globals, pc, now, key_idx, private_rpcs, networks, balances,
                    result, exc, response >>

\* for future in as_completed(futures): balances[network] = balance
Collect(t, n) ==
    /\ pc[t] = "collect"
    /\ n \in DOMAIN futures[t]
    /\ futures[t][n].state = "done"
    /\ InTurn(t, n, {"collected"})
    /\ balances' = [balances EXCEPT ![t] = CollectResult(@, n, futures[t][n].result)]
    /\ futures' = [futures EXCEPT ![t][n] = Collected(futures[t][n])]
    /\ UNCHANGED << world, history, globals, pc, now, key_idx, private_rpcs, networks, result, exc,
                    response >>

\* _cache = balances  (as_completed is exhausted, the executor has shut down)
UpdateCache(t) ==
    /\ pc[t] = "collect"
    /\ \A n \in DOMAIN futures[t] : futures[t][n].state = "collected"
    /\ cache' = balances[t]
    /\ cache_run' = now[t]
    /\ pc' = [pc EXCEPT ![t] = "update_timestamp"]
    /\ UNCHANGED << world, store_called, result_run, secrets_cache, cache_timestamp, locals, response >>

\* _cache_timestamp = now; return balances
UpdateTimestamp(t) ==
    /\ pc[t] = "update_timestamp"
    /\ cache_timestamp' = now[t]
    /\ result' = [result EXCEPT ![t] = balances[t]]
    /\ result_run' = [result_run EXCEPT ![t] = now[t]]
    /\ pc' = [pc EXCEPT ![t] = "respond"]
    /\ UNCHANGED << world, store_called, cache_run, secrets_cache, cache, now, key_idx, private_rpcs, networks,
                    futures, balances, exc, response >>

\* The locals of a finished invocation.
Cleared(f, t) == [f EXCEPT ![t] = EmptyDict]

Return200(t) ==
    /\ pc[t] = "respond"
    /\ response' = [response EXCEPT
                       ![t] = Success(result[t], cache_timestamp, now[t], result_run[t])]
    /\ result_run' = [result_run EXCEPT ![t] = 0]
    /\ pc' = [pc EXCEPT ![t] = "idle"]
    /\ now' = [now EXCEPT ![t] = 0]
    /\ key_idx' = [key_idx EXCEPT ![t] = 0]
    /\ private_rpcs' = Cleared(private_rpcs, t)
    /\ networks' = Cleared(networks, t)
    /\ futures' = Cleared(futures, t)
    /\ balances' = Cleared(balances, t)
    /\ result' = Cleared(result, t)
    /\ UNCHANGED << world, store_called, cache_run, globals, exc >>

\* except Exception as e: the 500 envelope.
Return500(t) ==
    /\ pc[t] = "except"
    /\ IF Handled(exc[t])
       THEN /\ response' = [response EXCEPT ![t] = Failure(exc[t])]
            /\ pc' = [pc EXCEPT ![t] = "idle"]
       ELSE /\ pc' = [pc EXCEPT ![t] = "escaped"]
            /\ UNCHANGED response
    /\ exc' = [exc EXCEPT ![t] = "none"]
    /\ now' = [now EXCEPT ![t] = 0]
    /\ key_idx' = [key_idx EXCEPT ![t] = 0]
    /\ private_rpcs' = Cleared(private_rpcs, t)
    /\ networks' = Cleared(networks, t)
    /\ futures' = Cleared(futures, t)
    /\ balances' = Cleared(balances, t)
    /\ result' = Cleared(result, t)
    /\ UNCHANGED << world, history, globals >>

Next ==
    \/ Tick
    \/ \E t \in callers :
         \/ Invoke(t)
         \/ ReadClock(t)
         \/ CheckCache(t)
         \/ ReturnCached(t)
         \/ GetSecretCached(t)
         \/ GetSecretMiss(t)
         \/ StoreCall(t)
         \/ BuildConfigs(t)
         \/ Submit(t)
         \/ PoolFail(t)
         \/ UpdateCache(t)
         \/ UpdateTimestamp(t)
         \/ Return200(t)
         \/ Return500(t)
         \/ \E n \in registry :
              \/ StartTask(t, n)
              \/ Attempt(t, n)
              \/ Collect(t, n)

Spec == Init /\ [][Next]_vars

\* One handler thread, and a secret store whose content and availability do
\* not change while the process lives.
InitSettled ==
    /\ InitProcess
    /\ InitRegistry
    /\ callers = {"t1"}
    /\ secret_store \in StoreAnswers
    /\ wire = "unreliable"

SpecSettled == InitSettled /\ [][Next]_vars

\* Two handler threads in one process, invoked independently of each other;
\* the secret is configured, no override is set and the endpoints are healthy.
InitConcurrent ==
    /\ InitProcess
    /\ callers = Threads
    /\ registry \in Registries
    /\ environ = [var \in EnvVarsOf(registry) |-> None]
    /\ secret_store = StoreAnswer("value", "https://private-1.example")
    /\ wire = "healthy"

SpecConcurrent == InitConcurrent /\ [][Next]_vars

\* Two handler threads in one process and a table of an RPC network and an
\* account-API network, the endpoints answering at once.
InitPrompt ==
    /\ InitProcess
    /\ callers = Threads
    /\ registry = {"base-mainnet", "stellar-mainnet"}
    /\ environ = [var \in EnvVarsOf(registry) |-> None]
    /\ secret_store = StoreAnswer("value", "https://private-1.example")
    /\ wire = "prompt"

SpecPrompt == InitPrompt /\ [][Next]_vars

\* Two handler threads in one process resolving the same short key while the
\* secret is rotated, the endpoints answering at once.
InitRaced ==
    /\ InitProcess
    /\ callers = Threads
    /\ registry = {"base-mainnet", "stellar-mainnet"}
    /\ environ = [var \in EnvVarsOf(registry) |-> None]
    /\ secret_store = Rotated
    /\ wire = "prompt"

SpecRaced == InitRaced /\ [][Next]_vars

\* The whole table of get_network_configs, on one handler thread: the secret
\* is configured, no override is set and the endpoints are in lockstep.
InitWholeTable ==
    /\ InitProcess
    /\ callers = {"t1"}
    /\ registry = AllNetworks
    /\ environ = [var \in EnvVarsOf(registry) |-> None]
    /\ secret_store = StoreAnswer("value", "https://private-1.example")
    /\ wire = "lockstep"

SpecWholeTable == InitWholeTable /\ [][Next]_vars

\* The table with a Sui network, on one handler thread, the secret configured:
\* the Sui endpoints are unreliable, or none of them reports the SUI coin.
InitSuiCoin ==
    /\ InitProcess
    /\ callers = {"t1"}
    /\ registry = {"near-mainnet", "sui-mainnet"}
    /\ environ \in [EnvVarsOf(registry) -> EnvValues]
    /\ secret_store = StoreAnswer("value", "https://private-1.example")
    /\ wire \in {"unreliable", "no_sui_coin"}

SpecSuiCoin == InitSuiCoin /\ [][Next]_vars

\* The steps of an invocation under way on thread t: everything lambda_handler
\* and the tasks of its run do once API Gateway has invoked it.
Proceed(t) ==
    \/ ReadClock(t)
    \/ CheckCache(t)
    \/ ReturnCached(t)
    \/ GetSecretCached(t)
    \/ GetSecretMiss(t)
    \/ StoreCall(t)
    \/ BuildConfigs(t)
    \/ Submit(t)
    \/ PoolFail(t)
    \/ UpdateCache(t)
    \/ UpdateTimestamp(t)
    \/ Return200(t)
    \/ Return500(t)
    \/ \E n \in registry :
         \/ StartTask(t, n)
         \/ Attempt(t, n)
         \/ Collect(t, n)

\* One handler thread and a table of an RPC network and an account-API
\* network; no override is set, the secret store and the endpoints are
\* unreliable.
InitFair ==
    /\ InitProcess
    /\ callers = {"t1"}
    /\ registry = {"base-mainnet", "stellar-mainnet"}
    /\ environ = [var \in EnvVarsOf(registry) |-> None]
    /\ secret_store = Volatile
    /\ wire = "unreliable"

\* Every outbound call returns or times out (the secret store's client, and
\* urlopen with timeout=8 or 5), the pool runs the tasks it was given and the
\* interpreter runs the handler: an invocation under way is not left waiting
\* for ever with a step it could take.
SpecFair == InitFair /\ [][Next]_vars /\ \A t \in Threads : WF_vars(Proceed(t))

(***************************************************************************)
(* Properties                                                              *)
(***************************************************************************)
TaskOf(t) == DOMAIN futures[t]

\* The threads whose aggregation run has filled balances for every task.
RunComplete(t) == pc[t] \in {"update_timestamp", "respond"} /\ futures[t] # EmptyDict

\* The short key of network n's private tier ("" when it has none).
PrivateKeyOf(n) ==
    IF \E tier \in TiersOf(n) : tier[1] = "private"
    THEN (CHOOSE tier \in TiersOf(n) : tier[1] = "private")[2]
    ELSE ""

\* C1 - Snapshot completeness: a completed aggregation run has built a mapping
\* whose keys are exactly the registry's network ids; the cache slot is the
\* empty initial mapping or a mapping with exactly those keys; a 200 envelope
\* carries exactly those keys.
SnapshotComplete ==
    /\ cache = EmptyDict \/ DOMAIN cache = registry
    /\ \A t \in Threads :
         /\ RunComplete(t) => DOMAIN balances[t] = registry
         /\ pc[t] = "respond" => DOMAIN result[t] = registry
         /\ response[t].statusCode = 200 => DOMAIN response[t].balances = registry

\* Witness of C1: a 200 envelope whose snapshot has a null entry next to a
\* balance, so that some network failed and some did not.
SnapshotCompleteWitness ==
    \E t \in Threads :
      /\ response[t].statusCode = 200
      /\ \E n1, n2 \in registry :
           /\ response[t].balances[n1] = Null
           /\ response[t].balances[n2] # Null

\* C2 - Fallback exhaustion: a network all of whose endpoints failed gets a
\* null entry (in the task's result, in balances once collected, in the cache
\* and in the value returned), and the run carries no exception.
FallbackExhaustion ==
    \A t \in Threads : \A n \in TaskOf(t) :
      LET task == futures[t][n]
      IN  /\ AllFailed(task) => task.result = Null
          /\ (AllFailed(task) \/ task.all_failed) => exc[t] = "none" /\ pc[t] # "except"
          /\ task.all_failed =>
               /\ balances[t][n] = Null
               /\ pc[t] = "update_timestamp" => cache[n] = Null
               /\ pc[t] = "respond" => result[t][n] = Null /\ cache[n] = Null

\* Witness of C2: a run about to answer 200 in which one network was exhausted
\* and another has a balance.
FallbackExhaustionWitness ==
    \E t \in Threads :
      /\ pc[t] = "respond"
      /\ \E n1, n2 \in TaskOf(t) :
           /\ futures[t][n1].all_failed
           /\ futures[t][n2].result # Null

\* C3 - Tier precedence: when a private RPC is configured for a network, its
\* task tries that endpoint first, and if that endpoint's response is
\* accepted the task ends there with the balance parsed from that response,
\* whatever the environment override and the public endpoint are.
TierPrecedence ==
    \A t \in Threads : \A n \in TaskOf(t) :
      LET task == futures[t][n]
          priv == DictGet(private_rpcs[t], PrivateKeyOf(n))
      IN  (Truthy(priv) /\ task.tried # << >>) =>
            /\ task.endpoints[task.tried[1][1]] = priv
            /\ task.tried[1][2] =>
                 /\ task.state = "done"
                 /\ Len(task.tried) = 1
                 /\ task.accepted.result = "ok"
                 /\ task.result = Format4(task.accepted.amount, Decimals(TypeOf(n)))

\* Witness of C3: the private endpoint answered first, with the environment
\* override and the public endpoint both configured behind it.
TierPrecedenceWitness ==
    \E t \in Threads : \E n \in TaskOf(t) :
      LET task == futures[t][n]
      IN  /\ task.state = "done"
          /\ Len(task.endpoints) = 3
          /\ task.endpoints[1] \in SecretUrls
          /\ task.tried = << << 1, TRUE >> >>
          /\ task.result # Null

\* C4 - Endpoint fallback walk: the endpoints are tried in list order, each
\* after the one before it failed; only the last attempt can be an accepted
\* one, and the task returns the balance of that response; a task still
\* running has seen only failures.
FallbackWalk ==
    \A t \in Threads : \A n \in TaskOf(t) :
      LET task == futures[t][n]
          k == Len(task.tried)
      IN  task.state \in {"running", "done"} =>
            /\ k <= Len(task.endpoints)
            /\ \A j \in 1..k : task.tried[j][1] = j
            /\ \A j \in 1..(k - 1) : ~task.tried[j][2]
            /\ task.state = "running" => task.i = k + 1 /\ (k > 0 => ~task.tried[k][2])
            /\ (task.state = "done" /\ k > 0 /\ task.tried[k][2]) =>
                 /\ Parse(TypeOf(n), task.accepted).outcome = "return"
                 /\ task.result = Parse(TypeOf(n), task.accepted).balance
            /\ (task.state = "done" /\ (k = 0 \/ ~task.tried[k][2])) =>
                 /\ k = Len(task.endpoints)
                 /\ task.result = Null

\* Witness of C4: the third endpoint answered after the first two failed.
FallbackWalkWitness ==
    \E t \in Threads : \E n \in TaskOf(t) :
      LET task == futures[t][n]
      IN  /\ task.state = "done"
          /\ task.tried = << << 1, FALSE >>, << 2, FALSE >>, << 3, TRUE >> >>
          /\ Len(task.endpoints) > 3

\* C5 - No JSON-RPC client returns on a response that carries an `error`
\* member.
ErrorNeverAccepted ==
    \A t \in Threads : \A n \in TaskOf(t) : ~futures[t][n].accepted.error

\* lambda_handler returns on thread t.
Returns(t) == pc[t] \in {"respond", "except"} /\ pc'[t] = "idle"

SameSnapshot(r1, r2) == r1.balances = r2.balances /\ r1.cached_at = r2.cached_at

\* C6 as stated - two successive successful invocations whose clock reads are
\* less than 60 s apart return the same snapshot with the same cached_at.
FreshWithin60OfEachOther ==
    [][\A t \in Threads :
         (/\ Returns(t)
          /\ response[t].statusCode = 200
          /\ response'[t].statusCode = 200
          /\ response'[t].at - response[t].at < TtlTicks)
         => SameSnapshot(response[t], response'[t])]_vars

\* C6 as amended - with one invocation at a time, a successful invocation whose
\* clock read is less than 60 s after the timestamp of the snapshot the
\* previous successful invocation returned gets that same snapshot with the
\* same cached_at, whatever the endpoints answer in between.
FreshWithin60OfSnapshot ==
    [][\A t \in Threads :
         (/\ Returns(t)
          /\ response[t].statusCode = 200
          /\ response'[t].statusCode = 200
          /\ response'[t].at - response[t].stamp < TtlTicks)
         => SameSnapshot(response[t], response'[t])]_vars

\* Witness of C6: an invocation about to return the snapshot the previous one
\* returned, 59.5 s after that snapshot's timestamp.
FreshWithin60OfSnapshotWitness ==
    \E t \in Threads :
      /\ pc[t] = "respond"
      /\ response[t].statusCode = 200
      /\ now[t] - response[t].stamp = TtlTicks - 1
      /\ result[t] = response[t].balances

\* C7 - Hit and miss: a call returns the cached snapshot exactly when the cache
\* is non-empty and now - timestamp < 60 s; otherwise it aggregates every
\* network, stores the new snapshot with its own clock read as timestamp, and
\* returns that snapshot.
CacheHitMiss ==
    \A t \in Threads :
      /\ pc[t] = "return_cached" =>
           cache # EmptyDict /\ now[t] - cache_timestamp < TtlTicks
      /\ pc[t] \in {"get_secret", "store_call", "submit", "collect"} =>
           cache = EmptyDict \/ now[t] - cache_timestamp >= TtlTicks
      /\ pc[t] = "update_timestamp" =>
           /\ \A n \in registry : futures[t][n].state = "collected"
           /\ cache = balances[t]
      /\ pc[t] = "respond" =>
           /\ result[t] = cache
           /\ futures[t] # EmptyDict =>
                /\ \A n \in registry : futures[t][n].state = "collected"
                /\ cache = balances[t]
                /\ cache_timestamp = now[t]
           /\ futures[t] = EmptyDict => now[t] - cache_timestamp < TtlTicks
      /\ (pc[t] = "idle" /\ response[t].statusCode = 200) =>
           /\ response[t].balances = cache
           /\ response[t].stamp = cache_timestamp

\* Witness of C7: a run that found the snapshot aged exactly 60 s has stored
\* its own, newer one and is about to return it.
CacheHitMissWitness ==
    \E t \in Threads :
      /\ pc[t] = "respond"
      /\ futures[t] # EmptyDict
      /\ response[t].statusCode = 200
      /\ now[t] - response[t].stamp = TtlTicks

Exceptions == {"BotoCoreError", "AttributeError", "RuntimeError"}

\* C8 - The handler returns an envelope and lets no exception out: an
\* exception in flight is at the handler's except clause, and every envelope
\* is the 200 form (full snapshot, cached_at, ttl_seconds = 60) or the 500
\* form (an error message).
HandlerEnvelope ==
    \A t \in Threads :
      /\ pc[t] # "escaped"
      /\ exc[t] # "none" => pc[t] = "except"
      /\ \/ response[t] = NoEnvelope
         \/ /\ response[t].statusCode = 200
            /\ DOMAIN response[t].balances = registry
            /\ response[t].cached_at = IntSeconds(response[t].stamp)
            /\ response[t].ttl_seconds = 60
            /\ response[t].error = "none"
         \/ /\ response[t].statusCode = 500
            /\ response[t].error \in Exceptions
            /\ response[t].balances = EmptyDict

\* Witness of C8: a worker-pool failure has been answered with the 500
\* envelope.
HandlerEnvelopeWitness ==
    \E t \in Threads :
      /\ pc[t] = "idle"
      /\ response[t].statusCode = 500
      /\ response[t].error = "RuntimeError"

\* C9 - A 500 envelope is returned only for a failure of the aggregation's
\* worker pool.
Only500OnAggregationFatal ==
    \A t \in Threads :
      response[t].statusCode = 500 => response[t].error = "RuntimeError"

\* C10 - A failed secret-store lookup is never raised: get_secret lets no
\* exception through, and no 500 envelope reports one.
CredentialFailureDegrades ==
    \A t \in Threads :
      /\ exc[t] \notin {"BotoCoreError", "AttributeError"}
      /\ response[t].error \notin {"BotoCoreError", "AttributeError"}

\* C11 - The secret store is called at most once for a (secret name, sub-key)
\* pair in a process, whatever the first call came to: no resolution is about
\* to call the store for a pair it has already been called for.
StoreCalledOnce ==
    \A t \in Threads :
      pc[t] = "store_call" =>
        CacheKey(MAINNET_SECRET_NAME, KeyLoop(registry)[key_idx[t]]) \notin store_called

\* The environment variable RPC_URL_<NETWORK> of a short key.
OverrideOf(key) ==
    CASE key = "base"      -> "RPC_URL_BASE"
      [] key = "avalanche" -> "RPC_URL_AVALANCHE"
      [] key = "polygon"   -> "RPC_URL_POLYGON"
      [] key = "optimism"  -> "RPC_URL_OPTIMISM"
      [] key = "celo"      -> "RPC_URL_CELO"
      [] key = "hyperevm"  -> "RPC_URL_HYPEREVM"
      [] key = "ethereum"  -> "RPC_URL_ETHEREUM"
      [] key = "arbitrum"  -> "RPC_URL_ARBITRUM"
      [] key = "unichain"  -> "RPC_URL_UNICHAIN"
      [] key = "solana"    -> "RPC_URL_SOLANA"
      [] key = "near"      -> "RPC_URL_NEAR"

\* The values variable var of the process environment may have: the one the
\* process reads, or any value when no code reads the variable.
EnvironOf(var) == IF var \in DOMAIN environ THEN {environ[var]} ELSE EnvValues

\* The list the tier order prescribes for a network with a private tier.
ThreeTierList(private, override, key) ==
    FilterRpcs(<< DictGet(private, key), override, PUBLIC_RPCS[key] >>)

\* C12 - Tier order: for every network with a privileged tier, the endpoints
\* its task walks are the private endpoint of its short key, the environment
\* override RPC_URL_<NETWORK> and the hardcoded public endpoint, in that order,
\* the absent ones removed.
TierOrder ==
    \A t \in Threads : \A n \in TaskOf(t) :
      (PrivateKeyOf(n) # "" /\ futures[t][n].state \in {"running", "done"}) =>
        \A override \in EnvironOf(OverrideOf(PrivateKeyOf(n))) :
          futures[t][n].endpoints = ThreeTierList(private_rpcs[t], override, PrivateKeyOf(n))

\* A tier that resolved to nothing: the secret has no such key, the variable
\* is unset or empty.
Absent(url) == url \in {None, ""}

HasPublicTier(n) == \E tier \in TiersOf(n) : tier[1] = "public"

\* C13 - Absent tiers are skipped: the endpoints a task walks are the tiers of
\* its network as resolved, in order, without the absent ones; no attempt goes
\* to an absent tier; a network with a hardcoded public endpoint has at least
\* one endpoint to walk.
AbsentSkipped ==
    \A t \in Threads : \A n \in TaskOf(t) :
      LET task == futures[t][n]
      IN  (task.state \in {"running", "done"} /\ networks[t][n].api = None) =>
            /\ task.endpoints = SelectSeq(networks[t][n].rpcs, LAMBDA url : ~Absent(url))
            /\ \A j \in 1..Len(task.tried) : ~Absent(task.endpoints[task.tried[j][1]])
            /\ HasPublicTier(n) => Len(task.endpoints) >= 1

\* Witness of C13: a task whose private tier and environment override are both
\* absent has gone straight to the public endpoint.
AbsentSkippedWitness ==
    \E t \in Threads : \E n \in TaskOf(t) :
      LET task == futures[t][n]
      IN  /\ task.state = "done"
          /\ Len(networks[t][n].rpcs) = 3
          /\ Absent(networks[t][n].rpcs[1])
          /\ Absent(networks[t][n].rpcs[2])
          /\ task.tried = << << 1, TRUE >> >>
          /\ task.endpoints = << networks[t][n].rpcs[3] >>

\* The endpoint list of network n that the content of the secret store and the
\* environment determine.
SettledList(n) ==
    LET url(tier) ==
          CASE tier[1] = "private" ->
                 IF secret_store.kind = "value" THEN secret_store.value ELSE None
            [] tier[1] = "env"     -> environ[tier[2]]
            [] tier[1] = "public"  -> tier[2]
        tiers == NetworkTable[n].rpcs
    IN  SelectSeq([i \in 1..Len(tiers) |-> url(tiers[i])], LAMBDA u : ~Absent(u))

\* The endpoint list of network n in the configs thread t holds.
ResolvedList(t, n) == SelectSeq(networks[t][n].rpcs, LAMBDA u : ~Absent(u))

Exponent(type) ==
    CASE type = "evm"      -> 18
      [] type = "solana"   -> 9
      [] type = "sui"      -> 9
      [] type = "near"     -> 24
      [] type = "algorand" -> 6

\* The string <<whole, frac>> is amount a over 10^d to four fractional digits:
\* whole.frac, in ten-thousandths, is within half a ten-thousandth of a / 10^d.
Renders(str, a, d) ==
    LET x == str[1] * 10000 + str[2]
        k == d - 4 - a.e
    IN  /\ str[1] >= 0
        /\ str[2] \in 0..9999
        /\ IF k <= 0 THEN x = a.m * Pow10(0 - k)
           ELSE IF k >= 10 THEN x = 0
           ELSE 2 * (x * Pow10(k) - a.m) \in (0 - Pow10(k))..Pow10(k)

\* C15 - Protocol scaling: a task that returned on a well-formed response with
\* raw amount a reports a / 10^d to four fractional digits, d being 18 for EVM,
\* 9 for Solana and Sui, 24 for NEAR and 6 for Algorand; 10^18 wei is "1.0000",
\* 2500000000 lamports "2.5000", 10^24 yoctoNEAR "1.0000" and 5000000
\* microalgos "5.0000".
ProtocolScaling ==
    \A t \in Threads : \A n \in TaskOf(t) :
      LET task == futures[t][n]
      IN  (/\ task.state = "done"
           /\ task.accepted.result = "ok"
           /\ TypeOf(n) \in {"evm", "solana", "sui", "near", "algorand"}) =>
            /\ Renders(task.result, task.accepted.amount, Exponent(TypeOf(n)))
            /\ (TypeOf(n) = "evm" /\ task.accepted.amount = Amt(1, 18)) =>
                 task.result = << 1, 0 >>
            /\ (TypeOf(n) = "solana" /\ task.accepted.amount = Amt(25, 8)) =>
                 task.result = << 2, 5000 >>
            /\ (TypeOf(n) = "near" /\ task.accepted.amount = Amt(1, 24)) =>
                 task.result = << 1, 0 >>
            /\ (TypeOf(n) = "algorand" /\ task.accepted.amount = Amt(5, 6)) =>
                 task.result = << 5, 0 >>

\* Witness of C15: in one run NEAR has answered 10^24 yoctoNEAR, reported as
\* "1.0000", and Sui 1234567890 MIST, reported as "1.2346".
ProtocolScalingWitness ==
    \E t \in Threads :
      /\ {"near-mainnet", "sui-mainnet"} \subseteq TaskOf(t)
      /\ futures[t]["near-mainnet"].accepted.amount = Amt(1, 24)
      /\ futures[t]["near-mainnet"].result = << 1, 0 >>
      /\ futures[t]["sui-mainnet"].accepted.amount = Amt(123456789, 1)
      /\ futures[t]["sui-mainnet"].result = << 1, 2346 >>

\* The open-access header set.
OpenAccessHeaders ==
    { "Access-Control-Allow-Origin", "Access-Control-Allow-Methods",
      "Access-Control-Allow-Headers" }

\* C16 - Every envelope lambda_handler returns, the 200 one and the 500 one,
\* carries the whole open-access header set.
OpenAccessOnEveryResponse ==
    \A t \in Threads :
      response[t] # NoEnvelope => OpenAccessHeaders \subseteq response[t].headers

\* What a caller sees of an envelope.
OnTheWire(r) ==
    [statusCode |-> r.statusCode, headers |-> r.headers, balances |-> r.balances,
     cached_at |-> r.cached_at, ttl_seconds |-> r.ttl_seconds, error |-> r.error]

\* C17 - Callers do not learn which endpoint or tier served or failed: two
\* successive 200 responses with the same balances, cut from the same
\* timestamp, are the same on the wire, and any two successive 500 responses
\* carry the same body, whatever failed.
EndpointsNotObservable ==
    [][\A t \in Threads :
         Returns(t) =>
           /\ (/\ response[t].statusCode = 200
               /\ response'[t].statusCode = 200
               /\ response'[t].balances = response[t].balances
               /\ response'[t].stamp = response[t].stamp)
              => OnTheWire(response'[t]) = OnTheWire(response[t])
           /\ (response[t].statusCode = 500 /\ response'[t].statusCode = 500)
              => response'[t].error = response[t].error]_vars

\* C18 - Atomic snapshot replacement: whenever a handler is about to read the
\* cache slot and its timestamp, the two belong to one aggregation run (or are
\* both the initial ones).
AtomicReplacement ==
    \A t \in Threads : pc[t] = "check_cache" => cache_timestamp = cache_run

TimestampMonotone == [][cache_timestamp' >= cache_timestamp]_vars

\* C21 - No in-flight-refresh guard: whether a caller refreshes is decided by
\* the slot and its timestamp alone - a caller that leaves the cache check
\* starts a full aggregation exactly when the slot is empty or stale, whether
\* or not another run is in flight - and a run that stores has fetched every
\* network itself.
RedundantRefresh ==
    [][\A t \in Threads :
         /\ (pc[t] = "check_cache" /\ pc'[t] # "check_cache") =>
              (pc'[t] = "get_secret"
                 <=> (cache = EmptyDict \/ now[t] - cache_timestamp >= TtlTicks))
         /\ (pc[t] = "collect" /\ pc'[t] = "update_timestamp") =>
              /\ DOMAIN futures[t] = registry
              /\ cache' = balances[t]]_vars

\* Witness of C21: two aggregation runs in flight at once, each having fetched
\* every network and written the slot.
RedundantRefreshWitness ==
    /\ pc["t1"] = "update_timestamp"
    /\ pc["t2"] = "update_timestamp"
    /\ \A t \in Threads : \A n \in registry : futures[t][n].state = "collected"

\* Thread t is serving its invocation from the cache: it has found the slot
\* non-empty and fresh, and has not returned yet.
ServingHit(t) ==
    \/ pc[t] = "check_cache" /\ cache # EmptyDict /\ now[t] - cache_timestamp < TtlTicks
    \/ pc[t] = "return_cached"
    \/ pc[t] = "respond" /\ futures[t] = EmptyDict

\* C22 - A cache hit has no side effects: while an invocation is served from
\* the cache, the secret store is not called, no fetch task exists, and the
\* slot, its timestamp and the credential cache stay as they are.
CacheHitFrame ==
    [][\A t \in callers :
         ServingHit(t) =>
           /\ store_called' = store_called
           /\ futures[t] = EmptyDict /\ futures'[t] = EmptyDict
           /\ cache' = cache
           /\ cache_timestamp' = cache_timestamp
           /\ secrets_cache' = secrets_cache]_vars

\* Witness of C22: an invocation served from a snapshot 59.5 s old is about to
\* return, the credential cache being in use.
CacheHitFrameWitness ==
    \E t \in callers :
      /\ pc[t] = "respond"
      /\ futures[t] = EmptyDict
      /\ now[t] - cache_timestamp = TtlTicks - 1
      /\ secrets_cache # EmptyDict

Started(t) == {n \in DOMAIN futures[t] : futures[t][n].state # "queued"}

Finished(t) == {n \in DOMAIN futures[t] : futures[t][n].state \in {"done", "collected"}}

\* C23 - Bounded parallelism: every network's task is submitted (there are
\* more than 20), at most 20 of them are in flight at any moment, and once more
\* than 20 have started, all but 20 of those started have finished.
BoundedParallelism ==
    \A t \in Threads :
      pc[t] = "collect" =>
        /\ DOMAIN futures[t] = AllNetworks
        /\ Cardinality(DOMAIN futures[t]) > 20
        /\ Cardinality(Running(t)) <= 20
        /\ Cardinality(Started(t)) > 20 =>
             Cardinality(Finished(t)) >= Cardinality(Started(t)) - 20

\* Witness of C23: the twenty-first task has started, one of the first twenty
\* having finished, and twenty are in flight while eleven wait in the queue.
BoundedParallelismWitness ==
    \E t \in Threads :
      /\ pc[t] = "collect"
      /\ Cardinality(Running(t)) = 20
      /\ Cardinality(Finished(t)) = 1
      /\ futures[t][NetworkOrder[21]].state = "running"
      /\ Cardinality(DOMAIN futures[t] \ Started(t)) = 11

\* How far a task has come.
Rank(state) ==
    CASE state = "queued"    -> 0
      [] state = "running"   -> 1
      [] state = "done"      -> 2
      [] state = "collected" -> 3

TriedEndpoints(task) == {task.tried[j][1] : j \in 1..Len(task.tried)}

\* C24 - No retries beyond the fallback walk: an aggregation run has exactly
\* one task per network of the table, a task never goes back to an earlier
\* stage (a finished network is not fetched again in the run), and each
\* attempt of a task is on an endpoint of its list it has not tried before.
NoRetries ==
    [][\A t \in Threads :
         /\ pc[t] = "collect" => DOMAIN futures[t] = registry
         /\ \A n \in DOMAIN futures[t] \cap DOMAIN futures'[t] :
              LET before == futures[t][n]
                  after  == futures'[t][n]
              IN  /\ Rank(after.state) >= Rank(before.state)
                  /\ Cardinality(TriedEndpoints(after)) = Len(after.tried)
                  /\ TriedEndpoints(after) \subseteq 1..Len(after.endpoints)
                  /\ before.state = "done" =>
                       after = before \/ after = Collected(before)
                  /\ before.state = "collected" => after = before
                  /\ (before.state = "running" /\ after # before) =>
                       /\ Len(after.tried) = Len(before.tried) + 1
                       /\ after.tried[Len(after.tried)][1] \notin TriedEndpoints(before)]_vars

\* Witness of C24: one network's walk was exhausted and its result collected,
\* and another network's task has finished having tried each of its several
\* endpoints once.
NoRetriesWitness ==
    \E t \in Threads : \E n, m \in DOMAIN futures[t] :
      /\ pc[t] = "collect"
      /\ futures[t][n].state = "collected" /\ futures[t][n].all_failed
      /\ futures[t][m].state = "done"
      /\ Len(futures[t][m].endpoints) >= 2
      /\ Len(futures[t][m].tried) = Len(futures[t][m].endpoints)
      /\ futures[t][m].result = Null

\* A step of network x's own task: it starts on x's resolved list, makes one
\* attempt whose outcome is x's endpoint's response, or is collected.
OwnStep(t, x, before, after) ==
    \/ /\ before.state = "queued"
       /\ after.state \in {"running", "done"}
       /\ after.endpoints = Endpoints(networks[t][x])
       /\ after.tried = << >>
    \/ /\ before.state = "running"
       /\ \E r \in Responses(TypeOf(x)) :
            after = AfterAttempt(x, before, r, Parse(TypeOf(x), r))
    \/ /\ before.state = "done"
       /\ after = Collected(before)

\* C25 - Network independence: the task of network X changes only by steps of
\* its own (on X's resolved endpoint list and X's endpoints' responses), a
\* step of another network's task leaves X's task and X's entry as they are,
\* and X's entry is the result of X's task.
NetworkIndependence ==
    [][\A t \in Threads : \A x \in DOMAIN futures[t] \cap DOMAIN futures'[t] :
         /\ futures'[t][x] # futures[t][x] =>
              /\ OwnStep(t, x, futures[t][x], futures'[t][x])
              /\ \A y \in DOMAIN futures[t] \ {x} :
                   /\ futures'[t][y] = futures[t][y]
                   /\ y \in DOMAIN balances[t] =>
                        y \in DOMAIN balances'[t] /\ balances'[t][y] = balances[t][y]
         /\ x \in DOMAIN balances'[t] =>
              /\ futures'[t][x].state = "collected"
              /\ balances'[t][x] = futures'[t][x].result]_vars

\* Witness of C25: one network's walk was exhausted, its entry is null, and the
\* other network's entry is the balance its own endpoint reported.
NetworkIndependenceWitness ==
    \E t \in Threads : \E x, y \in DOMAIN futures[t] :
      /\ pc[t] = "collect"
      /\ futures[t][y].state = "collected" /\ futures[t][y].all_failed
      /\ futures[t][x].state = "collected" /\ futures[t][x].result # Null
      /\ balances[t][y] = Null
      /\ balances[t][x] = futures[t][x].result

CollectedTasks(t) == {n \in DOMAIN futures[t] : futures[t][n].state = "collected"}

\* C26 - Order independence: whatever the order in which the tasks start and
\* complete, the snapshot under assembly holds exactly the networks collected
\* so far, each with the result of its own task, and the assembled snapshot
\* maps every network of the table to its own task's result.
OrderIndependence ==
    \A t \in Threads :
      /\ pc[t] = "collect" =>
           /\ DOMAIN balances[t] = CollectedTasks(t)
           /\ \A n \in CollectedTasks(t) : balances[t][n] = futures[t][n].result
      /\ RunComplete(t) =>
           balances[t] = [n \in registry |-> futures[t][n].result]

\* Witness of C26: the task submitted last was collected first, with a
\* balance, while the task submitted first is still walking its endpoints.
OrderIndependenceWitness ==
    \E t \in Threads : \E n, m \in DOMAIN futures[t] :
      /\ pc[t] = "collect"
      /\ PositionOf[n] < PositionOf[m]
      /\ futures[t][m].state = "collected" /\ balances[t][m] # Null
      /\ futures[t][n].state = "running" /\ futures[t][n].tried # << >>

SuiTasks(t) == {n \in DOMAIN futures[t] : TypeOf(n) = "sui"}

\* The Sui client returns a balance only on a result list with the SUI entry.
SuiParse == \A r \in Responses("sui") : ParseSui(r).outcome = "return" => r.result = "ok"

\* C27 - Sui coin selection: a Sui response yields a balance only if its
\* result list holds the "0x2::sui::SUI" entry, the balance being that entry's
\* totalBalance; a task that accepted no response has no balance; and when no
\* Sui endpoint returns that entry, the network's task, its snapshot entry and
\* its cached entry are null (never "0.0000").
SuiCoinSelection ==
    /\ SuiParse
    /\ \A t \in Threads : \A n \in SuiTasks(t) :
         LET task == futures[t][n]
         IN  /\ (task.state = "done" /\ task.result # Null) =>
                  /\ task.accepted.result = "ok"
                  /\ task.result = Format4(task.accepted.amount, Decimals("sui"))
             /\ (task.state = "done" /\ task.accepted = NoResponse) => task.result = Null
             /\ wire = "no_sui_coin" =>
                  /\ task.result = Null
                  /\ n \in DOMAIN balances[t] => balances[t][n] = Null
    /\ (wire = "no_sui_coin" /\ cache # EmptyDict) =>
         \A n \in DOMAIN cache : TypeOf(n) = "sui" => cache[n] = Null

\* Witness of C27: both endpoints of sui-mainnet have answered, neither with
\* the SUI entry, the network's balance is null, and NEAR's has been collected.
SuiCoinSelectionWitness ==
    \E t \in Threads :
      /\ wire = "no_sui_coin"
      /\ pc[t] = "collect"
      /\ DOMAIN futures[t] = {"near-mainnet", "sui-mainnet"}
      /\ futures[t]["sui-mainnet"].state = "done"
      /\ Len(futures[t]["sui-mainnet"].tried) = 2
      /\ futures[t]["sui-mainnet"].result = Null
      /\ futures[t]["near-mainnet"].state = "collected"
      /\ balances[t]["near-mainnet"] # Null

AccountApiTypes == {"stellar", "algorand"}

AccountApiTasks(t) == {n \in DOMAIN futures[t] : TypeOf(n) \in AccountApiTypes}

\* The account-API clients return a balance on well-formed responses only.
AccountApiParse ==
    \A type \in AccountApiTypes : \A r \in Responses(type) :
      Parse(type, r).outcome = "return" <=> (r.http = "json" /\ r.result = "ok")

\* C28 - Account-API chains: a Stellar or Algorand descriptor has no rpcs tier
\* (no secret key, no environment variable) and resolves to the table's api URL
\* whatever the secret store and the environment hold; its task makes one
\* request, to that URL; any response but a well-formed one with the native
\* balance (Stellar) or the amount (Algorand) leaves the balance null.
AccountApiSingleEndpoint ==
    /\ AccountApiParse
    /\ \A t \in Threads : \A n \in AccountApiTasks(t) :
         LET task == futures[t][n]
         IN  /\ TiersOf(n) = {}
             /\ networks[t][n].api = NetworkTable[n].api
             /\ networks[t][n].rpcs = << >>
             /\ task.state \in {"running", "done"} =>
                  task.endpoints = << NetworkTable[n].api >>
             /\ task.state = "running" => task.tried = << >>
             /\ task.state = "done" =>
                  /\ Len(task.tried) = 1
                  /\ task.tried[1][1] = 1
                  /\ task.tried[1][2] <=> task.result # Null
                  /\ task.result # Null => task.accepted.result = "ok"

\* Witness of C28: with a private RPC in the secret and an environment override
\* set, the one request of stellar-mainnet has failed and its balance is null.
AccountApiSingleEndpointWitness ==
    \E t \in Threads :
      /\ pc[t] = "collect"
      /\ "stellar-mainnet" \in DOMAIN futures[t]
      /\ futures[t]["stellar-mainnet"].state = "done"
      /\ futures[t]["stellar-mainnet"].tried = << << 1, FALSE >> >>
      /\ futures[t]["stellar-mainnet"].result = Null
      /\ private_rpcs[t] # EmptyDict
      /\ \E var \in DOMAIN environ : Truthy(environ[var])

Protocols == {"evm", "solana", "sui", "near", "stellar", "algorand"}

\* Every protocol's client turns a well-formed response that reports a raw
\* amount of zero into the string "0.0000".
ZeroRendered ==
    \A type \in Protocols : \A r \in Responses(type) :
      (r.http = "json" /\ r.result = "ok" /\ r.amount = Amt(0, 0)) =>
        Parse(type, r) = Return(<< 0, 0 >>)

\* C30 - Null means unavailable, never zero: a well-formed response with a raw
\* amount of zero yields "0.0000"; a task that accepted a response has that
\* response's balance, which is not null; and a network's result is null only
\* if every endpoint of its list was tried and none was accepted.
NullMeansUnavailable ==
    /\ ZeroRendered
    /\ << 0, 0 >> # Null
    /\ \A t \in Threads : \A n \in DOMAIN futures[t] :
         LET task == futures[t][n]
         IN  /\ (task.state = "done" /\ task.accepted # NoResponse) =>
                  /\ task.result = Parse(TypeOf(n), task.accepted).balance
                  /\ task.result # Null
                  /\ task.accepted.amount = Amt(0, 0) => task.result = << 0, 0 >>
             /\ (task.state = "done" /\ task.result = Null) => AllFailed(task)
             /\ (task.state = "collected" /\ task.result = Null) =>
                  /\ task.all_failed
                  /\ balances[t][n] = Null
             /\ (task.state = "collected" /\ task.result # Null) =>
                  balances[t][n] = task.result

\* Witness of C30: in one run a network whose endpoint reported a raw amount
\* of zero has the entry "0.0000" and a network whose walk was exhausted has
\* the entry null.
NullMeansUnavailableWitness ==
    \E t \in Threads : \E n, m \in DOMAIN futures[t] :
      /\ pc[t] = "collect"
      /\ futures[t][n].state = "done"
      /\ futures[t][n].accepted.result = "ok"
      /\ futures[t][n].accepted.amount = Amt(0, 0)
      /\ futures[t][n].result = << 0, 0 >>
      /\ futures[t][m].state = "collected"
      /\ futures[t][m].all_failed
      /\ balances[t][m] = Null

\* C29 - Every invocation eventually responds: an invocation under way
\* eventually returns, and what it returns is a 200 or a 500 envelope.
EventuallyResponds ==
    /\ \A t \in Threads : (pc[t] # "idle") ~> (pc[t] = "idle")
    /\ [][\A t \in Threads :
            (pc[t] # "idle" /\ pc'[t] = "idle") =>
              response'[t].statusCode \in {200, 500}]_vars

\* Witness of C29: an aggregation run is waiting on a task that has already
\* seen an endpoint fail, while the other task has not started.
EventuallyRespondsWitness ==
    \E t \in Threads : \E n, m \in DOMAIN futures[t] :
      /\ pc[t] = "collect"
      /\ futures[t][n].state = "running"
      /\ futures[t][n].tried # << >>
      /\ futures[t][m].state = "queued"

\* C31 - Bounded staleness: the balances of a 200 response come from a run
\* that read the clock (and, the endpoints answering at once, obtained them)
\* less than 60 seconds before the clock read of the invocation returning them.
BoundedStaleness ==
    \A t \in Threads :
      response[t].statusCode = 200 =>
        response[t].at - response[t].run < TtlTicks

\* Where an invocation is before its run has stored anything, or once it
\* has raised.
BeforeStore == {"read_clock", "check_cache", "get_secret", "store_call", "submit", "except"}

\* C32 - A failed run leaves the cache untouched: an invocation raises only
\* from the secret lookup or the submit loop; no step it takes before its run
\* stores, or on its way to the 500 envelope, changes the cache slot or the
\* cache timestamp; and the invocation that follows a 500 finds the cache a
\* miss and aggregates anew.
FailedRunLeavesCache ==
    [][\A t \in callers :
         /\ (pc[t] # "except" /\ pc'[t] = "except") => pc[t] \in {"store_call", "submit"}
         /\ pc[t] \in BeforeStore =>
              /\ cache' = cache
              /\ cache_timestamp' = cache_timestamp
         /\ (response[t].statusCode = 500 /\ pc[t] = "check_cache"
               /\ pc'[t] # "check_cache") => pc'[t] = "get_secret"]_vars

\* Witness of C32: the invocation after a 500 is aggregating anew, the cache
\* still holding the snapshot stored before the failed run.
FailedRunLeavesCacheWitness ==
    \E t \in callers :
      /\ response[t].statusCode = 500
      /\ pc[t] = "collect"
      /\ cache # EmptyDict
      /\ now[t] - cache_timestamp >= TtlTicks

\* C33 - Cached credentials are sticky: a value once held by _secrets_cache
\* for a (secret name, sub-key) pair stays the value held for that pair.
StickyCredentials ==
    [][\A k \in DOMAIN secrets_cache :
         /\ k \in DOMAIN secrets_cache'
         /\ secrets_cache'[k] = secrets_cache[k]]_vars

\* _secrets_cache never holds an absent or empty value.
CachedCredentialsPresent ==
    \A k \in DOMAIN secrets_cache : Truthy(secrets_cache[k])

\* With the store's value unchanged, raced first resolutions leave the value a
\* single resolution leaves.
RacedResolutionsAgree ==
    \A k \in DOMAIN secrets_cache :
      secret_store \notin {Volatile, Rotated} => secrets_cache[k] = secret_store.value

====
